---------------------------- MODULE Spec2Model ----------------------------
(***************************************************************************)
(* A model of the CEC scrapers: scrape_faculty.py (faculty ids and the     *)
(* appended faculty CSV, the faculty entry parser) and                     *)
(* scrapers/scrape_grants.py (the grant paragraph parser, the funding and  *)
(* awardee parsers, the grants CSV).                                       *)
(*                                                                         *)
(* Representation of text.  A Python str is a sequence of symbols.  A      *)
(* symbol is a one-character string ("F", "0", "$", " ", ",") or a word    *)
(* that the code only ever treats as a whole ("Kai", "and", "faculty_id"). *)
(* Operations on str (replace, split, strip, lower, in, int, float) are    *)
(* written over these sequences.  A value that may be None is None (the     *)
(* empty tuple) or Some(v) (the one-element tuple of v).                   *)
(***************************************************************************)
EXTENDS Integers, Sequences, FiniteSets, TLC

VARIABLES
    pc,                 \* position of the running script
    use_empty,          \* USE_EMPTY_FOR_NO_MATCH (configuration)
    \* ---- scrape_faculty.py: the output file and main()'s locals
    fexists,            \* os.path.exists(OUTPUT_FILE)
    freadable,          \* whether open(OUTPUT_FILE, 'r') and decoding succeed
    flines,             \* the file's lines, each a sequence of fields
    start_id,           \* main(): start_id
    warned,             \* get_next_faculty_id printed its warning
    faculty_list,       \* main(): faculty_list
    before,             \* history: the file as save_to_csv found it
    runs,               \* number of completed runs of main()
    \* ---- scrape_grants.py: parse_html_content's locals and the CSV
    para_i,             \* number of paragraphs the loop has handled
    current_entry_lines,
    grants_list,
    entry_count,
    headers,            \* history: number of header paragraphs seen
    cur_header,         \* history: ordinal of the header of the current entry
    origin,             \* history: for each grant, its header and where it was appended
    rows,               \* the rows written to the grants CSV
    \* ---- a call of one parsing function
    arg,                \* the argument
    res,                \* the returned value
    detail              \* parse_grant_entry: detail_line_idx (1-based, 0 = none)

vars == <<pc, use_empty, fexists, freadable, flines, start_id, warned,
          faculty_list, before, runs, para_i, current_entry_lines, grants_list,
          entry_count, headers, cur_header, origin, rows, arg, res, detail>>

facultyVars == <<fexists, freadable, flines, start_id, warned, faculty_list,
                 before, runs>>
grantVars == <<para_i, current_entry_lines, grants_list, entry_count, headers,
               cur_header, origin, rows>>
callVars == <<arg, res, detail>>

None == <<>>

Some(v) == <<v>>

\* the value of a variable the running script does not use
Unset == "unset"

(***************************************************************************)
(* Sequence helpers.                                                       *)
(***************************************************************************)
Range(s) == {s[i] : i \in 1..Len(s)}

SeqsUpTo(S, n) == UNION {[1..k -> S] : k \in 0..n}

RECURSIVE Concat(_)
Concat(ss) == IF ss = <<>> THEN <<>> ELSE Head(ss) \o Concat(Tail(ss))

Max(S) == CHOOSE x \in S : \A y \in S : y <= x

Min(S) == CHOOSE x \in S : \A y \in S : x <= y

(***************************************************************************)
(* Bounds.                                                                 *)
(***************************************************************************)
MaxInitLines == 3       \* lines of the faculty file at the start
MaxList == 2            \* entries scraped in one run
MaxRuns == 3            \* runs of main()

(***************************************************************************)
(* scrape_faculty.py: faculty ids.                                         *)
(***************************************************************************)
FACULTY_ID_PREFIX == "F"

DigitChars == <<"0", "1", "2", "3", "4", "5", "6", "7", "8", "9">>

IsDigit(c) == \E d \in 1..10 : DigitChars[d] = c

DigitValue(c) == (CHOOSE d \in 1..10 : DigitChars[d] = c) - 1

\* str(n) for n >= 0
RECURSIVE Decimal(_)
Decimal(n) == IF n < 10 THEN <<DigitChars[n + 1]>>
              ELSE Append(Decimal(n \div 10), DigitChars[(n % 10) + 1])

\* f"{n:05d}" for n >= 0: at least five digits, zero-filled on the left
RECURSIVE ZeroFill(_, _)
ZeroFill(s, width) == IF Len(s) >= width THEN s ELSE ZeroFill(<<"0">> \o s, width)

format_faculty_id(number) == <<FACULTY_ID_PREFIX>> \o ZeroFill(Decimal(number), 5)

\* fid.replace(FACULTY_ID_PREFIX, ''): every occurrence is removed
StripPrefix(fid) == SelectSeq(fid, LAMBDA c : c # FACULTY_ID_PREFIX)

\* int(s) raises ValueError unless s is a non-empty string of digits
IntParses(s) == s # <<>> /\ \A i \in 1..Len(s) : IsDigit(s[i])

RECURSIVE IntOf(_)
IntOf(s) == IF s = <<>> THEN 0
            ELSE 10 * IntOf(SubSeq(s, 1, Len(s) - 1)) + DigitValue(s[Len(s)])

(***************************************************************************)
(* The faculty CSV.  A line is <<faculty_id, full_name>>: the eight        *)
(* columns after faculty_id are written and read together and stand as one.*)
(***************************************************************************)
HeaderLine == << <<"faculty_id">>, <<"full_name">> >>

\* csv.DictReader: the first line gives the field names, every later line
\* is a row; row[key] raises KeyError when no field name is key, and the
\* last column of that name wins.
RowHasKey(fieldnames, key) == \E i \in 1..Len(fieldnames) : fieldnames[i] = key

RowGet(fieldnames, line, key) ==
    line[Max({i \in 1..Len(fieldnames) : fieldnames[i] = key})]

DataLines(lines) == IF lines = <<>> THEN <<>> ELSE Tail(lines)

\* the list comprehension of line 118; raises when a row has no faculty_id
FacultyIdsRaise(lines) ==
    DataLines(lines) # <<>> /\ ~RowHasKey(lines[1], <<"faculty_id">>)

FacultyIds(lines) ==
    [i \in 1..Len(DataLines(lines)) |->
        RowGet(lines[1], DataLines(lines)[i], <<"faculty_id">>)]

\* the list comprehension of line 124; raises when some id is no number
NumbersRaise(fids) == \E i \in 1..Len(fids) : ~IntParses(StripPrefix(fids[i]))

Numbers(fids) == [i \in 1..Len(fids) |-> IntOf(StripPrefix(fids[i]))]

\* get_next_faculty_id: <<returned number, whether the warning was printed>>
get_next_faculty_id_nomax(exists, readable, lines) ==
    IF ~exists THEN <<1, FALSE>>
    ELSE IF ~readable \/ FacultyIdsRaise(lines) THEN <<1, TRUE>>
    ELSE IF FacultyIds(lines) = <<>> THEN <<1, FALSE>>
    ELSE IF NumbersRaise(FacultyIds(lines)) THEN <<1, TRUE>>
    ELSE LET numbers == Numbers(FacultyIds(lines))
         IN  <<numbers[Len(numbers)] + 1, FALSE>>

get_next_faculty_id(exists, readable, lines) ==
    IF ~exists THEN <<1, FALSE>>
    ELSE IF ~readable \/ FacultyIdsRaise(lines) THEN <<1, TRUE>>
    ELSE IF FacultyIds(lines) = <<>> THEN <<1, FALSE>>
    ELSE IF NumbersRaise(FacultyIds(lines)) THEN <<1, TRUE>>
    ELSE <<Max(Range(Numbers(FacultyIds(lines)))) + 1, FALSE>>

\* the rows save_to_csv writes: enumerate(faculty_list, start=start_id)
RECURSIVE FacultyRows(_, _)
FacultyRows(list, i) ==
    IF list = <<>> THEN <<>>
    ELSE << <<format_faculty_id(i), Head(list)>> >> \o FacultyRows(Tail(list), i + 1)

\* save_to_csv (scrape_faculty.py): the file's lines afterwards
faculty_save_to_csv_header(exists, lines, list, start) ==
    IF exists THEN lines \o <<HeaderLine>> \o FacultyRows(list, start)
    ELSE <<HeaderLine>> \o FacultyRows(list, start)

faculty_save_to_csv(exists, lines, list, start) ==
    IF exists THEN lines \o FacultyRows(list, start)
    ELSE <<HeaderLine>> \o FacultyRows(list, start)

(***************************************************************************)
(* Inputs of the faculty scraper.                                          *)
(***************************************************************************)
\* what one run scrapes: k entries, neighbours differing
Scraped(k) == [i \in 1..k |-> IF i % 2 = 1 THEN <<"Ann">> ELSE <<"Bob">>]

FidPool == { format_faculty_id(2), format_faculty_id(5),
             <<"F", "F", "3">>, <<"7">>, <<"F", "x">> }

LinePool == {HeaderLine} \cup { <<fid, <<"Ann">> >> : fid \in FidPool }

IdleGrants ==
    /\ para_i = 0
    /\ current_entry_lines = <<>>
    /\ grants_list = <<>>
    /\ entry_count = 0
    /\ headers = 0
    /\ cur_header = 0
    /\ origin = <<>>
    /\ rows = <<>>

IdleCall == arg = Unset /\ res = Unset /\ detail = 0

IdleFaculty ==
    /\ fexists = FALSE
    /\ freadable = TRUE
    /\ flines = <<>>
    /\ start_id = 0
    /\ warned = FALSE
    /\ faculty_list = <<>>
    /\ before = Unset
    /\ runs = 0

\* any output file: absent, empty, or holding lines of any kind
InitFile ==
    /\ pc = "main"
    /\ use_empty = TRUE
    /\ fexists \in BOOLEAN
    /\ freadable \in BOOLEAN
    /\ flines \in SeqsUpTo(LinePool, MaxInitLines)
    /\ (~fexists => flines = <<>> /\ freadable)
    /\ start_id = 0
    /\ warned = FALSE
    /\ faculty_list = <<>>
    /\ before = Unset
    /\ runs = 0
    /\ IdleGrants
    /\ IdleCall

\* main(), line 413
GetNextFacultyId ==
    /\ pc = "main"
    /\ runs < MaxRuns
    /\ start_id' = get_next_faculty_id(fexists, freadable, flines)[1]
    /\ warned' = get_next_faculty_id(fexists, freadable, flines)[2]
    /\ pc' = "scrape"
    /\ UNCHANGED <<use_empty, fexists, freadable, flines, faculty_list, before,
                   runs, grantVars, callVars>>

\* main(), lines 417-421: nothing scraped ends the run
ScrapeFaculty ==
    /\ pc = "scrape"
    /\ \E k \in 0..MaxList :
        LET list == Scraped(k) IN
        /\ faculty_list' = list
        /\ IF list = <<>>
           THEN pc' = "main" /\ runs' = runs + 1
           ELSE pc' = "save" /\ runs' = runs
    /\ UNCHANGED <<use_empty, fexists, freadable, flines, start_id, warned,
                   before, grantVars, callVars>>

\* main(), line 428
SaveFaculty ==
    /\ pc = "save"
    /\ before' = [exists |-> fexists, lines |-> flines]
    /\ flines' = faculty_save_to_csv(fexists, flines, faculty_list, start_id)
    /\ fexists' = TRUE
    /\ pc' = "saved"
    /\ UNCHANGED <<use_empty, freadable, start_id, warned, faculty_list, runs,
                   grantVars, callVars>>

EndRun ==
    /\ pc = "saved"
    /\ pc' = "main"
    /\ runs' = runs + 1
    /\ UNCHANGED <<use_empty, fexists, freadable, flines, start_id, warned,
                   faculty_list, before, grantVars, callVars>>

NextFile == GetNextFacultyId \/ ScrapeFaculty \/ SaveFaculty \/ EndRun

SpecFile == InitFile /\ [][NextFile]_vars

(***************************************************************************)
(* scrape_grants.py: text.  The words below are the vocabulary of the      *)
(* grant texts; Lower and FirstLetter give, for each, what str.lower() and *)
(* a one-character regular expression class see of it.  Apart from the    *)
(* forms of receive, no word contains another word of the vocabulary.      *)
(***************************************************************************)
LowerTable ==
    [ And |-> "and", AND |-> "and", Anticipated |-> "anticipated",
      ANTICIPATED |-> "anticipated", Funding |-> "funding", Grant |-> "grant",
      Award |-> "award", Total |-> "total", Amount |-> "amount",
      Receives |-> "receives", Received |-> "received", Receive |-> "receive",
      From |-> "from", For |-> "for", January |-> "january",
      February |-> "february", Spring |-> "spring", Kai |-> "kai",
      Zeng |-> "zeng", Bo |-> "bo", Han |-> "han", NSF |-> "nsf",
      Radar |-> "radar", Thanks |-> "thanks", May |-> "may",
      M |-> "m", K |-> "k", More |-> "more" ]

Lower(c) == IF c \in DOMAIN LowerTable THEN LowerTable[c] ELSE c

LowerStr(s) == [i \in 1..Len(s) |-> Lower(s[i])]

FirstLetterTable ==
    [ more |-> "m", More |-> "M", Kai |-> "K", kai |-> "k", million |-> "m" ]

FirstLetter(c) == IF c \in DOMAIN FirstLetterTable THEN FirstLetterTable[c] ELSE c

IsSpace(c) == c = " "

\* s.strip(): leading and trailing whitespace removed
RECURSIVE LStrip(_)
LStrip(s) == IF s # <<>> /\ IsSpace(Head(s)) THEN LStrip(Tail(s)) ELSE s

RECURSIVE RStrip(_)
RStrip(s) == IF s # <<>> /\ IsSpace(s[Len(s)])
             THEN RStrip(SubSeq(s, 1, Len(s) - 1)) ELSE s

Strip(s) == LStrip(RStrip(s))

\* whether sub occurs in s at index i
MatchAt(s, sub, i) ==
    /\ i >= 1
    /\ i + Len(sub) - 1 <= Len(s)
    /\ \A k \in 1..Len(sub) : s[i + k - 1] = sub[k]

\* sub in s
Contains(s, sub) == \E i \in 1..Len(s) : MatchAt(s, sub, i)

\* s.replace(old, new): occurrences taken left to right, not overlapping
RECURSIVE Replace(_, _, _)
Replace(s, old, new) ==
    IF s = <<>> THEN <<>>
    ELSE IF MatchAt(s, old, 1)
    THEN new \o Replace(SubSeq(s, Len(old) + 1, Len(s)), old, new)
    ELSE <<Head(s)>> \o Replace(Tail(s), old, new)

\* s.split(sep) for a one-symbol separator: always at least one piece
RECURSIVE Split(_, _)
Split(s, sep) ==
    IF \A i \in 1..Len(s) : s[i] # sep THEN <<s>>
    ELSE LET i == Min({k \in 1..Len(s) : s[k] = sep})
         IN  <<SubSeq(s, 1, i - 1)>> \o Split(SubSeq(s, i + 1, Len(s)), sep)

(***************************************************************************)
(* parse_awardees.                                                         *)
(***************************************************************************)
\* line 136: the names kept
KeepName(name) == name # <<>> /\ LowerStr(name) \notin {<<>>, <<"and">>}

parse_awardees_nostrip(awardee_str) ==
    LET normalized == Replace(awardee_str, <<" ", "and", " ">>, <<",", " ">>)
        pieces == Split(normalized, ",")
        names == [i \in 1..Len(pieces) |-> pieces[i]]
    IN  SelectSeq(names, KeepName)

parse_awardees(awardee_str) ==
    LET normalized == Replace(awardee_str, <<" ", "and", " ">>, <<",", " ">>)
        pieces == Split(normalized, ",")
        names == [i \in 1..Len(pieces) |-> Strip(pieces[i])]
    IN  SelectSeq(names, KeepName)

MaxAwardeeLen == 5      \* symbols of an awardee string

AwardeeAlphabet == {"Kai", "Zeng", " ", ",", "and", "And"}

AwardeeExamples ==
    { <<"Kai", " ", "Zeng">>,
      <<"Brian", " ", "L", ".", " ", "Mark", " ", "and", " ", "Kai", " ", "Zeng">>,
      <<"Bo", " ", "Han", ",", " ", "Parth", " ", "Pathak", ",", " ", "and", " ",
        "Lap", " ", "Fai", " ", "Yu">> }

InitAwardees ==
    /\ pc = "call"
    /\ use_empty = TRUE
    /\ IdleFaculty
    /\ IdleGrants
    /\ arg \in SeqsUpTo(AwardeeAlphabet, MaxAwardeeLen) \cup AwardeeExamples
    /\ res = Unset
    /\ detail = 0

CallParseAwardees ==
    /\ pc = "call"
    /\ res' = parse_awardees(arg)
    /\ pc' = "done"
    /\ UNCHANGED <<use_empty, facultyVars, grantVars, arg, detail>>

SpecAwardees == InitAwardees /\ [][CallParseAwardees]_vars


(***************************************************************************)
(* Python float (IEEE 754 binary64) and int.  A natural number is a        *)
(* sequence of bits, least significant first; a float is m * 2^e with m    *)
(* of at most 53 bits, kept as [m |-> bits, e |-> exponent].               *)
(***************************************************************************)
MantissaBits == 53
ScaleBits == 90         \* working precision of the decimal-to-binary division

RECURSIVE NatBits(_)
NatBits(n) == IF n = 0 THEN <<>> ELSE <<n % 2>> \o NatBits(n \div 2)

RECURSIVE BitsNat(_)
BitsNat(b) == IF b = <<>> THEN 0 ELSE Head(b) + 2 * BitsNat(Tail(b))

RECURSIVE TrimBits(_)
TrimBits(b) == IF b # <<>> /\ b[Len(b)] = 0
               THEN TrimBits(SubSeq(b, 1, Len(b) - 1)) ELSE b

Zeros(n) == [i \in 1..n |-> 0]

\* The same number in limbs of ten bits, least significant first.
Limbs(b) ==
    [j \in 1..((Len(b) + 9) \div 10) |->
        BitsNat(SubSeq(b, 10 * (j - 1) + 1,
                       IF 10 * j <= Len(b) THEN 10 * j ELSE Len(b)))]

RECURSIVE Pow2(_)
Pow2(k) == IF k = 0 THEN 1 ELSE 2 * Pow2(k - 1)

BitsOfLimbs(l) ==
    [i \in 1..(10 * Len(l)) |-> (l[((i - 1) \div 10) + 1] \div Pow2((i - 1) % 10)) % 2]

RECURSIVE NatLimbs(_)
NatLimbs(n) == IF n = 0 THEN <<>> ELSE <<n % 1024>> \o NatLimbs(n \div 1024)

RECURSIVE MulLimbs(_, _, _)
MulLimbs(l, c, carry) ==
    IF l = <<>> THEN NatLimbs(carry)
    ELSE LET t == Head(l) * c + carry
         IN  <<t % 1024>> \o MulLimbs(Tail(l), c, t \div 1024)

RECURSIVE DivLimbs(_, _)
DivLimbs(l, d) ==
    IF l = <<>> THEN [q |-> <<>>, r |-> 0]
    ELSE LET hi == DivLimbs(Tail(l), d)
             t == 1024 * hi.r + Head(l)
         IN  [q |-> <<t \div d>> \o hi.q, r |-> t % d]

\* b * c, for c < 2^20
MulSmall(b, c) == BitsOfLimbs(MulLimbs(Limbs(b), c, 0))

\* b divided by d < 2^20: [q |-> quotient bits, r |-> remainder]
DivSmall(b, d) ==
    LET qr == DivLimbs(Limbs(b), d)
    IN  [q |-> BitsOfLimbs(qr.q), r |-> qr.r]

RECURSIVE AddOne(_)
AddOne(b) == IF b = <<>> THEN <<1>>
             ELSE IF Head(b) = 0 THEN <<1>> \o Tail(b)
             ELSE <<0>> \o AddOne(Tail(b))

\* round the natural b (sticky: a non-zero fraction lies below it) to
\* MantissaBits bits, to nearest, ties to even: [m, e] with value m * 2^e
RoundBits(b, sticky) ==
    IF Len(b) <= MantissaBits THEN [m |-> b, e |-> 0]
    ELSE LET t == Len(b) - MantissaBits
             high == SubSeq(b, t + 1, Len(b))
             half == b[t] = 1
             below == sticky \/ \E i \in 1..(t - 1) : b[i] = 1
             up == half /\ (below \/ high[1] = 1)
         IN  [m |-> IF up THEN AddOne(high) ELSE high, e |-> t]

Pow10(k) == IF k = 0 THEN 1 ELSE
            IF k = 1 THEN 10 ELSE
            IF k = 2 THEN 100 ELSE
            IF k = 3 THEN 1000 ELSE
            IF k = 4 THEN 10000 ELSE 100000

\* float("<digits>.<frac>"): the double nearest to n / 10^k
FloatOfDecimal(n, k) ==
    LET qr == DivSmall(Zeros(ScaleBits) \o NatBits(n), Pow10(k))
        r == RoundBits(TrimBits(qr.q), qr.r # 0)
    IN  [m |-> r.m, e |-> r.e - ScaleBits]

\* x * c for an integer c < 2^20 (x *= 1_000_000, x *= 1_000)
FloatTimes(x, c) ==
    LET r == RoundBits(TrimBits(MulSmall(x.m, c)), FALSE)
    IN  [m |-> r.m, e |-> r.e + x.e]

\* int(x), x >= 0: truncation
IntOfFloat(x) ==
    IF x.e >= 0 THEN BitsNat(Zeros(x.e) \o x.m)
    ELSE IF -x.e >= Len(x.m) THEN 0
    ELSE BitsNat(SubSeq(x.m, 1 - x.e, Len(x.m)))

(***************************************************************************)
(* parse_funding_amount.                                                   *)
(***************************************************************************)
IsAmountChar(c) == IsDigit(c) \/ c = ","

\* the end of the longest run of indices of the set ok that starts at i
\* (i - 1 when i is not in ok)
RunEnd(s, i, ok) ==
    IF \A k \in i..Len(s) : k \in ok THEN Len(s)
    ELSE Min({k \in i..Len(s) : k \notin ok}) - 1

Spaces(s) == {k \in 1..Len(s) : IsSpace(s[k])}

Digits(s) == {k \in 1..Len(s) : IsDigit(s[k])}

AmountChars(s) == {k \in 1..Len(s) : IsAmountChar(s[k])}

\* re.search(r'\$\s*([\d,]+(?:\.\d+)?)\s*([MmKk])?', s) tried at the '$'
\* at index i: None, or Some([num, frac, mult]) and the index after the
\* number and the whitespace that follows it
AmountMatchAt(s, i) ==
    LET j == RunEnd(s, i + 1, Spaces(s)) + 1
        e == RunEnd(s, j, AmountChars(s))
        hasFrac == e + 2 <= Len(s) /\ s[e + 1] = "." /\ IsDigit(s[e + 2])
        f == IF hasFrac THEN RunEnd(s, e + 2, Digits(s)) ELSE e
        m == RunEnd(s, f + 1, Spaces(s)) + 1
    IN  IF e < j THEN None
        ELSE Some([num |-> SubSeq(s, j, e), after |-> m,
                   frac |-> IF hasFrac THEN SubSeq(s, e + 2, f) ELSE <<>>,
                   mult |-> IF m <= Len(s) /\ FirstLetter(s[m]) \in {"M", "m", "K", "k"}
                            THEN Some(FirstLetter(s[m])) ELSE None])

AmountMatch(s) ==
    LET at == {i \in 1..Len(s) : s[i] = "$" /\ AmountMatchAt(s, i) # None}
    IN  IF at = {} THEN None ELSE AmountMatchAt(s, Min(at))

Multiplier(mult) ==
    IF mult = None THEN 1
    ELSE IF Lower(mult[1]) = "m" THEN 1000000 ELSE 1000

\* lines 92-108 for a match: the amount, None when float() raises
AmountOf(match) ==
    LET digits == SelectSeq(match.num, IsDigit)
        value == FloatOfDecimal(IntOf(digits \o match.frac), Len(match.frac))
    IN  IF digits = <<>> /\ match.frac = <<>> THEN None
        ELSE IF match.mult = None THEN Some(IntOfFloat(value))
        ELSE Some(IntOfFloat(FloatTimes(value, Multiplier(match.mult))))

\* parse_funding_amount: <<amount, is_anticipated>>
parse_funding_amount(amount_str) ==
    LET is_anticipated == \E i \in 1..Len(amount_str) :
                              Lower(amount_str[i]) = "anticipated"
        match == AmountMatch(amount_str)
    IN  IF match = None THEN <<None, is_anticipated>>
        ELSE <<AmountOf(match[1]), is_anticipated>>

MaxFundingLen == 5      \* symbols of an amount string

FundingAlphabet == {"$", " ", "4", "1", ",", ".", "M", "k", "more", "Anticipated"}

InitFunding ==
    /\ pc = "call"
    /\ use_empty = TRUE
    /\ IdleFaculty
    /\ IdleGrants
    /\ arg \in SeqsUpTo(FundingAlphabet, MaxFundingLen)
    /\ res = Unset
    /\ detail = 0

CallParseFundingAmount ==
    /\ pc = "call"
    /\ res' = parse_funding_amount(arg)
    /\ pc' = "done"
    /\ UNCHANGED <<use_empty, facultyVars, grantVars, arg, detail>>

SpecFunding == InitFunding /\ [][CallParseFundingAmount]_vars


(***************************************************************************)
(* parse_date.                                                             *)
(***************************************************************************)
MonthNames == <<"january", "february", "march", "april", "may", "june", "july",
                "august", "september", "october", "november", "december">>

IsMonth(c) == \E m \in 1..12 : MonthNames[m] = Lower(c)

MonthNumber(c) == CHOOSE m \in 1..12 : MonthNames[m] = Lower(c)

IsLeap(y) == (y % 4 = 0 /\ y % 100 # 0) \/ y % 400 = 0

DaysInMonth(y, m) ==
    IF m = 2 THEN (IF IsLeap(y) THEN 29 ELSE 28)
    ELSE IF m \in {4, 6, 9, 11} THEN 30 ELSE 31

\* datetime.strptime(s, "%B %d, %Y"): None when it raises ValueError, else
\* Some(<<year, month, day>>)
StrpTime(s) ==
    IF s = <<>> \/ ~IsMonth(s[1]) THEN None
    ELSE LET d1 == RunEnd(s, 2, Spaces(s)) + 1
             d2 == IF d1 + 1 <= Len(s) /\ IsDigit(s[d1 + 1]) THEN d1 + 1 ELSE d1
             y1 == RunEnd(s, d2 + 2, Spaces(s)) + 1
         IN  IF /\ d1 > 2
                /\ d1 <= Len(s) /\ IsDigit(s[d1])
                /\ d2 + 1 <= Len(s) /\ s[d2 + 1] = ","
                /\ y1 > d2 + 2
                /\ y1 + 3 = Len(s)
                /\ \A k \in y1..(y1 + 3) : IsDigit(s[k])
             THEN LET day == IntOf(SubSeq(s, d1, d2))
                      month == MonthNumber(s[1])
                      year == IntOf(SubSeq(s, y1, y1 + 3))
                  IN  IF year >= 1 /\ day >= 1 /\ day <= DaysInMonth(year, month)
                      THEN Some(<<year, month, day>>) ELSE None
             ELSE None

\* date_obj.strftime("%Y-%m-%d")
StrfTime(ymd) ==
    ZeroFill(Decimal(ymd[1]), 4) \o <<"-">> \o ZeroFill(Decimal(ymd[2]), 2)
        \o <<"-">> \o ZeroFill(Decimal(ymd[3]), 2)

parse_date(date_str) ==
    IF StrpTime(Strip(date_str)) # None
    THEN StrfTime(StrpTime(Strip(date_str))[1])
    ELSE Strip(date_str)

(***************************************************************************)
(* parse_grant_entry.                                                      *)
(***************************************************************************)
IsReceive(c) == Lower(c) \in {"receive", "receives", "received"}

\* receive[sd]?\s+funding\s+from matched at index i: the index of "from",
\* 0 when there is no match
PhraseEnd(s, i) ==
    LET a == RunEnd(s, i + 1, Spaces(s)) + 1
        b == RunEnd(s, a + 1, Spaces(s)) + 1
    IN  IF /\ i >= 1 /\ i <= Len(s) /\ IsReceive(s[i])
           /\ a > i + 1 /\ a <= Len(s) /\ Lower(s[a]) = "funding"
           /\ b > a + 1 /\ b <= Len(s) /\ Lower(s[b]) = "from"
        THEN b ELSE 0

HasPhrase(s) == \E i \in 1..Len(s) : PhraseEnd(s, i) > 0

\* ' for ' in line.lower()
HasFor(s) == Contains(LowerStr(s), <<" ", "for", " ">>)

\* lines 170-186: the index of the detail line, 0 when there is none
DetailLineIdxFirstPhrase(lines) ==
    IF \E i \in 1..Len(lines) : HasPhrase(lines[i])
    THEN Min({i \in 1..Len(lines) : HasPhrase(lines[i])})
    ELSE 0

DetailLineIdx(lines) ==
    IF \E i \in 1..Len(lines) : HasPhrase(lines[i]) /\ HasFor(lines[i])
    THEN Min({i \in 1..Len(lines) : HasPhrase(lines[i]) /\ HasFor(lines[i])})
    ELSE IF \E i \in 1..Len(lines) : HasPhrase(lines[i])
    THEN Min({i \in 1..Len(lines) : HasPhrase(lines[i])})
    ELSE 0

Keywords == { <<"anticipated", " ", "funding">>, <<"grant", " ", "total">>,
              <<"award", " ", "amount">>, <<"award">> }

AmountKeywords == Keywords \ { <<"award">> }

\* (?:\s*(?:Anticipated funding|Grant total|Award amount|Award))?\.?\s*$
\* matches all of s from index i on
IsTail(s, i) ==
    LET r == RStrip(SubSeq(s, i, Len(s)))
        body == IF r # <<>> /\ r[Len(r)] = "." THEN SubSeq(r, 1, Len(r) - 1) ELSE r
    IN  body = <<>> \/ LowerStr(LStrip(body)) \in Keywords

\* the pattern of line 193 matched with the phrase at index p: group 1 is
\* s[1..g], the sponsor starts at a
PatternAt(s, p) ==
    LET b == PhraseEnd(s, p)
        a == RunEnd(s, b + 1, Spaces(s)) + 1
        g == Max({1} \cup {k \in 1..(p - 1) : ~IsSpace(s[k])})
    IN  /\ b > 0
        /\ p >= 3 /\ IsSpace(s[p - 1]) /\ g < p - 1
        /\ \A k \in (g + 1)..(p - 1) : IsSpace(s[k])
        /\ a > b + 1 /\ a <= Len(s)

\* \s+for\s+(.+?) can follow a sponsor that ends at index j: the index
\* where the title starts, 0 when it cannot
ForAfter(s, j) ==
    LET f == RunEnd(s, j + 1, Spaces(s)) + 1
        t == RunEnd(s, f + 1, Spaces(s)) + 1
    IN  IF /\ f > j + 1 /\ f <= Len(s) /\ Lower(s[f]) = "for"
           /\ t > f + 1 /\ t <= Len(s)
        THEN t ELSE 0

\* the groups of the match with the phrase at index p: the awardees end at
\* g, the sponsor is s[a..j], the title starts at t (0: there is none)
PatternGroups(s, g, a, j, t) ==
    Some([awardee_str |-> SubSeq(s, 1, g),
          sponsor |-> SubSeq(s, a, j),
          title |-> IF t > 0
                    THEN SubSeq(s, t, Min({k \in t..Len(s) : IsTail(s, k + 1)}))
                    ELSE <<>>])

PatternTitle(s, g, a, j) == PatternGroups(s, g, a, j, ForAfter(s, j))

PatternSponsor(s, g, a) ==
    PatternTitle(s, g, a,
                 Min({k \in a..Len(s) : ForAfter(s, k) > 0 \/ IsTail(s, k + 1)}))

PatternFrom(s, p) ==
    PatternSponsor(s, Max({1} \cup {k \in 1..(p - 1) : ~IsSpace(s[k])}),
                   RunEnd(s, PhraseEnd(s, p) + 1, Spaces(s)) + 1)

FirstPattern(s, ps) == IF ps = {} THEN None ELSE PatternFrom(s, Min(ps))

\* re.search(pattern, detail_line, re.IGNORECASE): None, or the groups
PatternMatch(s) == FirstPattern(s, {p \in 1..Len(s) : PatternAt(s, p)})

\* the re.sub of line 205: the funding information is cut off the title
ColonsAndSpaces(s) == {i \in 1..Len(s) : s[i] = ":" \/ IsSpace(s[i])}

FundingInfoAt(s, u) ==
    LET v == IF s[u] \in {".", "\"", "'"} THEN u + 1 ELSE u
        k == RunEnd(s, v, Spaces(s)) + 1
    IN  \E kw \in Keywords :
            /\ MatchAt(LowerStr(s), kw, k)
            /\ LET d == RunEnd(s, k + Len(kw), ColonsAndSpaces(s)) + 1
               IN  d > k + Len(kw) /\ d <= Len(s) /\ s[d] = "$"

CutFundingInfo(s) ==
    IF \E u \in 1..Len(s) : FundingInfoAt(s, u)
    THEN SubSeq(s, 1, Min({u \in 1..Len(s) : FundingInfoAt(s, u)}) - 1)
    ELSE s

\* s.strip(ch) and s.rstrip(ch) for one character
RECURSIVE RStripChar(_, _)
RStripChar(s, ch) == IF s # <<>> /\ s[Len(s)] = ch
                     THEN RStripChar(SubSeq(s, 1, Len(s) - 1), ch) ELSE s

RECURSIVE LStripChar(_, _)
LStripChar(s, ch) == IF s # <<>> /\ Head(s) = ch THEN LStripChar(Tail(s), ch) ELSE s

StripChar(s, ch) == LStripChar(RStripChar(s, ch), ch)

\* lines 205-206 and the strip of line 250
CleanTitle(title) ==
    Strip(RStripChar(StripChar(StripChar(Strip(CutFundingInfo(title)), "\""), "'"), "."))


\* the search of line 214 at index u: the index where group(0) ends, 0
\* when there is no match there
DetailFundingEnd(s, u) ==
    IF \E kw \in AmountKeywords : MatchAt(LowerStr(s), kw, u)
    THEN LET d == RunEnd(s, u + 3, ColonsAndSpaces(s)) + 1
             n == RunEnd(s, d + 1, Spaces(s)) + 1
             e == RunEnd(s, n, AmountChars(s))
         IN  IF d > u + 3 /\ d <= Len(s) /\ s[d] = "$" /\ e >= n THEN e ELSE 0
    ELSE 0

\* the loop of lines 219-223 over the lines from index i on, (funding,
\* is_anticipated) being the values assigned so far
RECURSIVE FundingFromLines(_, _, _)
\* lines 221-223: got is what parse_funding_amount gave for line i
FundingStep(lines, i, got) ==
    IF got[1] # None /\ got[1] # Some(0) THEN got
    ELSE FundingFromLines(lines, i + 1, got)

FundingFromLines(lines, i, sofar) ==
    IF i > Len(lines) THEN sofar
    ELSE IF /\ \E k \in 1..Len(lines[i]) : lines[i][k] = "$"
            /\ \E k \in 1..Len(lines[i]) :
                  Lower(lines[i][k]) \in {"funding", "award", "grant"}
    THEN FundingStep(lines, i, parse_funding_amount(lines[i]))
    ELSE FundingFromLines(lines, i + 1, sofar)

\* line 216: the amount of the match that starts at index u
FundingAt(s, u) == parse_funding_amount(SubSeq(s, u, DetailFundingEnd(s, u)))

\* lines 210-223: <<funding, is_anticipated>>
FindFunding(lines, detail_line) ==
    IF \E u \in 1..Len(detail_line) : DetailFundingEnd(detail_line, u) > 0
    THEN FundingAt(detail_line,
                   Min({k \in 1..Len(detail_line) : DetailFundingEnd(detail_line, k) > 0}))
    ELSE FundingFromLines(lines, 1, <<None, FALSE>>)

\* lines 237-240: parsed is what parse_date gave for clean_line
DateIfParsed(clean_line, parsed) ==
    IF parsed # clean_line THEN Some(parsed) ELSE None

\* lines 231-242 for one line: None when the line is skipped or is no date
DateOfLine(line) ==
    IF \/ \E k \in 1..Len(line) : line[k] = "$"
       \/ \E k \in 1..Len(line) : Lower(line[k]) = "funding"
    THEN None
    ELSE DateIfParsed(RStripChar(line, "."), parse_date(RStripChar(line, ".")))

\* the last of the dates found, None when none was found
LastDate(dates) ==
    IF \E i \in 1..Len(dates) : dates[i] # None
    THEN dates[Max({i \in 1..Len(dates) : dates[i] # None})]
    ELSE None

\* lines 226-242: the date of the last line that gives one
FindDate(lines) == LastDate([i \in 1..Len(lines) |-> DateOfLine(lines[i])])

\* line 163: the stripped, non-blank lines of the entry text
EntryLines(entry) ==
    SelectSeq([i \in 1..Len(entry) |-> Strip(entry[i])], LAMBDA l : l # <<>>)

\* lines 245-254: the returned dict
GrantOf(match, found, date) ==
    Some([awardees |-> parse_awardees(match.awardee_str),
          sponsor |-> Strip(match.sponsor),
          title |-> CleanTitle(match.title),
          funding |-> found[1],
          is_anticipated |-> found[2],
          date |-> date])

\* lines 195-242, match being the result of the search of line 194
ParseMatched(lines, detail_line, match) ==
    IF match = None THEN None
    ELSE GrantOf(match[1], FindFunding(lines, detail_line), FindDate(lines))

\* lines 185-194, idx being the index of the detail line
ParseDetail(lines, idx) ==
    IF idx = 0 THEN None
    ELSE ParseMatched(lines, lines[idx], PatternMatch(lines[idx]))

\* lines 165-183
ParseLines(lines) ==
    IF Len(lines) < 2 THEN None ELSE ParseDetail(lines, DetailLineIdx(lines))

\* parse_grant_entry: None, or Some(the grant)
parse_grant_entry(entry) == ParseLines(EntryLines(entry))

(***************************************************************************)
(* Grant texts.  Words(ws) is the words ws separated by single spaces.     *)
(***************************************************************************)
RECURSIVE Words(_)
Words(ws) == IF Len(ws) <= 1 THEN ws
             ELSE <<Head(ws), " ">> \o Words(Tail(ws))

\* new format, header: [Name] receives funding from [Source]
LineHeader == Words(<<"Kai", "Zeng", "receives", "funding", "from", "NSF">>)

\* new format, detail: [Name] received funding from [Source] for [Title].
LineDetail ==
    Words(<<"Kai", "Zeng", "received", "funding", "from", "NSF", "for", "Radar">>)
        \o <<".">>

\* old format: ... for [Title]. Grant total: $X.
LineOld ==
    Words(<<"Bo", "Han", "and", "Kai", "Zeng", "Received", "funding", "from",
            "NSF", "for", "Radar">>)
        \o <<".", " ", "Grant", " ", "total", ":", " ", "$", "4", ",", "1", "0", "0", ".">>

LineAmount == <<"Anticipated", " ", "funding", ":", " ", "$", "4", ".", "1", "M">>

LineDate == <<"January", " ", "1", "2", ",", " ", "2", "0", "2", "6">>

LineThanks == Words(<<"Thanks", "for", "Radar">>)

\* no awardee before the phrase
LineNoName == Words(<<"receives", "funding", "from", "NSF">>)

\* an awardee string without a name
LineComma == <<",", " ">> \o LineNoName

LineBlank == <<" ">>

LineWide ==
    <<"Kai", " ", " ", "receive", " ", " ", "Funding", " ", " ", "From", " ", " ", "NSF">>

\* a season instead of a date, a blank before the full stop
LineSeason == <<"Spring", " ", "2", "0", "2", "4", " ", ".">>

MaxEntryLines == 3      \* lines of an entry text

EntryLinePool == {LineHeader, LineDetail, LineOld, LineAmount, LineDate,
                  LineThanks, LineNoName, LineBlank, LineWide}

InitEntry ==
    /\ pc = "call"
    /\ use_empty = TRUE
    /\ IdleFaculty
    /\ IdleGrants
    /\ arg \in SeqsUpTo(EntryLinePool, MaxEntryLines)
    /\ res = Unset
    /\ detail = 0

\* detail_line_idx is kept one-based, 0 standing for the code's -1
CallParseGrantEntry ==
    /\ pc = "call"
    /\ res' = parse_grant_entry(arg)
    /\ detail' = IF Len(EntryLines(arg)) < 2 THEN 0 ELSE DetailLineIdx(EntryLines(arg))
    /\ pc' = "done"
    /\ UNCHANGED <<use_empty, facultyVars, grantVars, arg>>

SpecEntry == InitEntry /\ [][CallParseGrantEntry]_vars


(***************************************************************************)
(* parse_html_content.  A paragraph is what the loop reads of a <p>:       *)
(* whether it has a <strong> child, and its text as get_text(separator=    *)
(* '\n', strip=True) gives it, a sequence of lines.                        *)
(***************************************************************************)
Punctuation == {" ", ",", ".", ":", "$", "-", "\"", "'"}

\* \w: a digit, or a word (made of letters)
IsWordChar(c) == c \notin Punctuation

\* re.search(r'\b\d{4}\b', s)
HasYear(s) ==
    \E i \in 1..(Len(s) - 3) :
        /\ \A k \in i..(i + 3) : IsDigit(s[k])
        /\ (i = 1 \/ ~IsWordChar(s[i - 1]))
        /\ (i + 3 = Len(s) \/ ~IsWordChar(s[i + 4]))

TextHasDollar(text) == \E l \in 1..Len(text) : \E k \in 1..Len(text[l]) : text[l][k] = "$"

TextHasYear(text) == \E l \in 1..Len(text) : HasYear(text[l])

\* line 349
IsHeader(p) ==
    p.strong /\ \E l \in 1..Len(p.text) : \E k \in 1..Len(p.text[l]) : IsReceive(p.text[l][k])

\* parsed.get('date'): None and '' are false
HasDate(grant) == grant.date # None /\ grant.date[1] # <<>>

\* lines 370-376: the entry collected so far is parsed once it has a dollar
\* sign and a year, or four paragraphs
TryParse(entry_lines) ==
    IF /\ Len(entry_lines) >= 2
       /\ \/ /\ \E i \in 1..Len(entry_lines) : TextHasDollar(entry_lines[i])
             /\ \E i \in 1..Len(entry_lines) : TextHasYear(entry_lines[i])
          \/ Len(entry_lines) >= 4
    THEN parse_grant_entry(Concat(entry_lines))
    ELSE None

\* line 385: current_entry_lines once an entry has been accepted
AfterAcceptKeep(entry_lines) == entry_lines

AfterAccept(entry_lines) == <<>>

MaxParagraphs == 4      \* paragraphs of the page

ParagraphPool ==
    { [strong |-> TRUE, text |-> <<LineHeader>>],
      [strong |-> TRUE, text |-> <<LineComma>>],
      [strong |-> TRUE, text |-> <<LineThanks>>],
      [strong |-> FALSE, text |-> <<LineDetail>>],
      [strong |-> FALSE, text |-> <<LineAmount>>],
      [strong |-> FALSE, text |-> <<LineDate>>],
      [strong |-> FALSE, text |-> <<LineSeason>>],
      [strong |-> FALSE, text |-> <<LineAmount, LineDate>>],
      [strong |-> FALSE, text |-> <<>>] }

InitHtml ==
    /\ pc = "parse"
    /\ use_empty = TRUE
    /\ IdleFaculty
    /\ IdleGrants
    /\ IdleCall

\* lines 357-359 and 391-393: parsed is appended unless it is None
AppendParsed(parsed, at) ==
    /\ grants_list' = IF parsed # None THEN Append(grants_list, parsed[1])
                      ELSE grants_list
    /\ entry_count' = IF parsed # None THEN entry_count + 1 ELSE entry_count
    /\ origin' = IF parsed # None
                 THEN Append(origin, [header |-> cur_header, at |-> at])
                 ELSE origin

\* lines 351-362: a header paragraph
HeaderParagraph(p) ==
    /\ AppendParsed(IF current_entry_lines # <<>>
                    THEN parse_grant_entry(Concat(current_entry_lines)) ELSE None,
                    "header")
    /\ current_entry_lines' = <<p.text>>
    /\ headers' = headers + 1
    /\ cur_header' = headers + 1

\* lines 381-385: parsed is accepted only with a date
AcceptParsed(entry_lines, parsed) ==
    IF parsed # None /\ HasDate(parsed[1])
    THEN /\ AppendParsed(parsed, "mid")
         /\ current_entry_lines' = AfterAccept(entry_lines)
    ELSE /\ current_entry_lines' = entry_lines
         /\ UNCHANGED <<grants_list, entry_count, origin>>

\* lines 363-385: any other paragraph
OtherParagraph(p) ==
    IF current_entry_lines = <<>>
    THEN UNCHANGED <<current_entry_lines, grants_list, entry_count, headers,
                     cur_header, origin>>
    ELSE /\ AcceptParsed(Append(current_entry_lines, p.text),
                         TryParse(Append(current_entry_lines, p.text)))
         /\ UNCHANGED <<headers, cur_header>>

\* one turn of the loop of lines 339-385
Paragraph ==
    /\ pc = "parse"
    /\ para_i < MaxParagraphs
    /\ para_i' = para_i + 1
    /\ \E p \in ParagraphPool :
          IF p.text = <<>>
          THEN UNCHANGED <<current_entry_lines, grants_list, entry_count, headers,
                           cur_header, origin>>
          ELSE IF IsHeader(p) THEN HeaderParagraph(p)
          ELSE OtherParagraph(p)
    /\ UNCHANGED <<pc, use_empty, facultyVars, rows, callVars>>

\* lines 387-396, and main(), lines 510-514
EndOfParagraphs ==
    /\ pc = "parse"
    /\ AppendParsed(IF Len(current_entry_lines) >= 2
                    THEN parse_grant_entry(Concat(current_entry_lines)) ELSE None,
                    "end")
    /\ pc' = IF grants_list' = <<>> THEN "exit" ELSE "save"
    /\ UNCHANGED <<use_empty, facultyVars, para_i, current_entry_lines, headers,
                   cur_header, rows, callVars>>

(***************************************************************************)
(* save_to_csv (scrape_grants.py).                                         *)
(***************************************************************************)
GRANT_ID_PREFIX == "G"

format_grant_id(number) == <<GRANT_ID_PREFIX>> \o ZeroFill(Decimal(number), 5)

GrantRow(grant, awardee, counter) ==
    [grant_id |-> format_grant_id(counter),
     funding |-> grant.funding,
     sponsor |-> grant.sponsor,
     awardee |-> awardee,
     title |-> grant.title,
     date |-> grant.date,
     is_anticipated |-> grant.is_anticipated,
     department_id |-> <<>>,
     capabilities_id |-> <<>>]

\* lines 427-458, from grant_counter = counter on
RECURSIVE GrantRowsPerGrant(_, _)
GrantRowsPerGrant(list, counter) ==
    IF list = <<>> THEN <<>>
    ELSE LET grant == Head(list)
         IN  (IF grant.awardees = <<>>
              THEN <<GrantRow(grant, <<>>, counter)>>
              ELSE [k \in 1..Len(grant.awardees) |->
                       GrantRow(grant, grant.awardees[k], counter)])
             \o GrantRowsPerGrant(Tail(list), counter + 1)

RECURSIVE GrantRowsSkipEmpty(_, _)
GrantRowsSkipEmpty(list, counter) ==
    IF list = <<>> THEN <<>>
    ELSE LET grant == Head(list)
             n == Len(grant.awardees)
         IN  [k \in 1..n |-> GrantRow(grant, grant.awardees[k], counter + k - 1)]
             \o GrantRowsSkipEmpty(Tail(list), counter + n)

RECURSIVE GrantRows(_, _)
GrantRows(list, counter) ==
    IF list = <<>> THEN <<>>
    ELSE LET grant == Head(list)
             n == IF grant.awardees = <<>> THEN 1 ELSE Len(grant.awardees)
         IN  (IF grant.awardees = <<>>
              THEN <<GrantRow(grant, <<>>, counter)>>
              ELSE [k \in 1..n |-> GrantRow(grant, grant.awardees[k], counter + k - 1)])
             \o GrantRows(Tail(list), counter + n)

\* save_to_csv: the rows written after the header
grants_save_to_csv(list) == GrantRows(list, 1)

\* csv.writer: None is written as the empty string
CsvText(value) == IF value = None THEN <<>> ELSE value[1]

SaveGrants ==
    /\ pc = "save"
    /\ rows' = grants_save_to_csv(grants_list)
    /\ pc' = "saved"
    /\ UNCHANGED <<use_empty, facultyVars, para_i, current_entry_lines,
                   grants_list, entry_count, headers, cur_header, origin, callVars>>

NextHtml == Paragraph \/ EndOfParagraphs \/ SaveGrants

SpecHtml == InitHtml /\ [][NextHtml]_vars


(***************************************************************************)
(* save_to_csv (scrape_grants.py) on any list of grants.                   *)
(***************************************************************************)
MaxGrants == 3          \* grants handed to save_to_csv

\* grants as parse_grant_entry returns them: two awardees, one, none
GrantPool ==
    { parse_grant_entry(<<LineOld, LineDate>>)[1],
      parse_grant_entry(<<LineHeader, LineDetail, LineAmount>>)[1],
      parse_grant_entry(<<LineHeader, LineDate>>)[1],
      parse_grant_entry(<<LineComma, LineAmount>>)[1] }

InitGrantsCsv ==
    /\ pc = "save"
    /\ use_empty = TRUE
    /\ IdleFaculty
    /\ IdleCall
    /\ para_i = 0
    /\ current_entry_lines = <<>>
    /\ grants_list \in SeqsUpTo(GrantPool, MaxGrants)
    /\ entry_count = Len(grants_list)
    /\ headers = 0
    /\ cur_header = 0
    /\ origin = <<>>
    /\ rows = <<>>

SpecGrantsCsv == InitGrantsCsv /\ [][SaveGrants]_vars

(***************************************************************************)
(* parse_faculty_entry (scrape_faculty.py).  The texts of this part are    *)
(* sequences of characters.                                                *)
(***************************************************************************)
UpperLetters ==
    <<"A", "B", "C", "D", "E", "F", "G", "H", "I", "J", "K", "L", "M",
      "N", "O", "P", "Q", "R", "S", "T", "U", "V", "W", "X", "Y", "Z">>

LowerLetters ==
    <<"a", "b", "c", "d", "e", "f", "g", "h", "i", "j", "k", "l", "m",
      "n", "o", "p", "q", "r", "s", "t", "u", "v", "w", "x", "y", "z">>

\* [A-Z]
IsUpper(c) == \E i \in 1..26 : UpperLetters[i] = c

\* str.lower()
LowerChar(c) ==
    IF IsUpper(c) THEN LowerLetters[CHOOSE i \in 1..26 : UpperLetters[i] = c] ELSE c

LowerChars(s) == [i \in 1..Len(s) |-> LowerChar(s[i])]

\* sep.join(parts)
RECURSIVE Join(_, _)
Join(parts, sep) ==
    IF parts = <<>> THEN <<>>
    ELSE IF Len(parts) = 1 THEN parts[1]
    ELSE parts[1] \o sep \o Join(Tail(parts), sep)

\* fuzzy_match_department; departments is the dict as a sequence of
\* <<department_name, department_id>> in insertion order
ExactMatches(text_lower, departments) ==
    {i \in 1..Len(departments) : text_lower = LowerChars(departments[i][1])}

PartialMatches(text_lower, departments) ==
    {i \in 1..Len(departments) :
        \/ Contains(text_lower, LowerChars(departments[i][1]))
        \/ Contains(LowerChars(departments[i][1]), text_lower)}

FirstMatch(departments, exact, partial) ==
    IF exact # {} THEN Some(departments[Min(exact)][2])
    ELSE IF partial # {} THEN Some(departments[Min(partial)][2])
    ELSE None

MatchLower(text_lower, departments) ==
    FirstMatch(departments, ExactMatches(text_lower, departments),
               PartialMatches(text_lower, departments))

fuzzy_match_department(text, departments) ==
    IF text = <<>> \/ departments = <<>> THEN None
    ELSE MatchLower(Strip(LowerChars(text)), departments)

\* the separator of line 145 at index i: the index where it ends, 0 when
\* there is none
SentenceEnd(s, i) ==
    IF s[i] # "." THEN 0
    ELSE IF /\ RunEnd(s, i + 1, Spaces(s)) >= i + 1
            /\ RunEnd(s, i + 1, Spaces(s)) < Len(s)
            /\ IsUpper(s[RunEnd(s, i + 1, Spaces(s)) + 1])
    THEN RunEnd(s, i + 1, Spaces(s))
    ELSE IF \A k \in (i + 1)..Len(s) : IsSpace(s[k]) THEN i
    ELSE 0

\* re.split of line 145
RECURSIVE SplitSentences(_)
SplitSentenceAt(s, i) ==
    <<SubSeq(s, 1, i - 1)>> \o SplitSentences(SubSeq(s, SentenceEnd(s, i) + 1, Len(s)))

SplitSentences(s) ==
    IF \A i \in 1..Len(s) : SentenceEnd(s, i) = 0 THEN <<s>>
    ELSE SplitSentenceAt(s, Min({i \in 1..Len(s) : SentenceEnd(s, i) > 0}))

\* a list of texts stripped, the empty ones dropped when asked
StripAll(texts) == [i \in 1..Len(texts) |-> Strip(texts[i])]

\* lines 145-146
Sentences(entry_text) ==
    SelectSeq(StripAll(SplitSentences(entry_text)), LAMBDA x : x # <<>>)

CountCommas(s) == Cardinality({i \in 1..Len(s) : s[i] = ","})

CollegeOf == <<"C", "o", "l", "l", "e", "g", "e", " ", "o", "f">>

\* lines 153-161
AcademicParts(sentences) == SelectSeq(sentences, HasYear)

GoodCandidates(sentences) ==
    SelectSeq(sentences, LAMBDA x : ~HasYear(x) /\ CountCommas(x) >= 2)

\* lines 163-166
MainCandidates(sentences, good) == IF good = <<>> THEN <<sentences[1]>> ELSE good

\* lines 168-180
MainSentence(candidates) ==
    IF \E i \in 1..Len(candidates) : Contains(candidates[i], CollegeOf)
    THEN candidates[Min({i \in 1..Len(candidates) : Contains(candidates[i], CollegeOf)})]
    ELSE candidates[Min({i \in 1..Len(candidates) :
                            \A j \in 1..Len(candidates) :
                               CountCommas(candidates[j]) <= CountCommas(candidates[i])})]

\* line 186
Fields(main_sentence) == StripAll(Split(main_sentence, ","))

\* lines 196-203: the index of the college field, 0 when there is none
CollegeIdx(fields) ==
    IF \E i \in 3..Len(fields) : Contains(fields[i], CollegeOf)
    THEN Min({i \in 3..Len(fields) : Contains(fields[i], CollegeOf)})
    ELSE 0

\* lines 206-211
MiddleFields(fields, college_idx) ==
    IF college_idx # 0 THEN SubSeq(fields, 3, college_idx - 1)
    ELSE SubSeq(fields, 3, Len(fields))

\* lines 219-228: the index of the first middle field that matches, 0 when
\* none does
MatchedIdx(middle_fields, departments) ==
    IF \E i \in 1..Len(middle_fields) :
          fuzzy_match_department(middle_fields[i], departments) # None
    THEN Min({i \in 1..Len(middle_fields) :
                 fuzzy_match_department(middle_fields[i], departments) # None})
    ELSE 0

\* lines 231-242: <<title_parts, department_raw>> when no field matched
NoMatchLast(middle_fields, use) ==
    IF middle_fields = <<>> \/ use THEN <<middle_fields, <<>> >>
    ELSE <<SubSeq(middle_fields, 1, Len(middle_fields) - 1),
           middle_fields[Len(middle_fields)]>>

NoMatch(middle_fields, use) ==
    IF middle_fields = <<>> \/ use THEN <<middle_fields, <<>> >>
    ELSE IF Len(middle_fields) > 1
    THEN <<SubSeq(middle_fields, 1, Len(middle_fields) - 1),
           middle_fields[Len(middle_fields)]>>
    ELSE <<middle_fields, <<>> >>

\* lines 215-242: <<title_parts, department_raw, department_id>>
Department(middle_fields, departments, idx, use) ==
    IF idx # 0
    THEN <<SubSeq(middle_fields, 1, idx - 1), middle_fields[idx],
           fuzzy_match_department(middle_fields[idx], departments)[1]>>
    ELSE NoMatch(middle_fields, use) \o << <<>> >>

\* line 244
Title(title_parts, middle_fields) ==
    IF title_parts # <<>> THEN Join(title_parts, <<",", " ">>)
    ELSE IF middle_fields # <<>> THEN middle_fields[1]
    ELSE <<>>

\* lines 248-257
FacultyOf(fields, college_idx, middle_fields, dept, academic_parts) ==
    Some([full_name |-> fields[1] \o <<",", " ">> \o fields[2],
          first_name |-> fields[2],
          last_name |-> fields[1],
          title |-> Title(dept[1], middle_fields),
          department |-> dept[2],
          department_id |-> dept[3],
          college |-> IF college_idx # 0 THEN fields[college_idx] ELSE <<>>,
          academic_history |-> Join(academic_parts, <<".", " ">>)])

ParseMiddle(fields, college_idx, middle_fields, departments, use, academic_parts) ==
    FacultyOf(fields, college_idx, middle_fields,
              Department(middle_fields, departments,
                         MatchedIdx(middle_fields, departments), use),
              academic_parts)

ParseCollege(fields, college_idx, departments, use, academic_parts) ==
    ParseMiddle(fields, college_idx, MiddleFields(fields, college_idx),
                departments, use, academic_parts)

\* lines 186-257
ParseFields(fields, departments, use, academic_parts) ==
    IF Len(fields) < 3 THEN None
    ELSE ParseCollege(fields, CollegeIdx(fields), departments, use, academic_parts)

\* lines 148-183
ParseSentences(sentences, departments, use) ==
    IF sentences = <<>> THEN None
    ELSE ParseFields(Fields(MainSentence(MainCandidates(sentences,
                                                        GoodCandidates(sentences)))),
                     departments, use, AcademicParts(sentences))

\* parse_faculty_entry, use being USE_EMPTY_FOR_NO_MATCH: None, or
\* Some(the dict)
parse_faculty_entry(entry_text, departments, use) ==
    ParseSentences(Sentences(entry_text), departments, use)

(***************************************************************************)
(* Faculty entries: Last, First, the middle fields, the college, and the   *)
(* academic history.                                                       *)
(***************************************************************************)
TextName == <<"L", "e", "e", ",", " ", "A", "n", "n">>

TextProfessor == <<"P", "r", "o", "f", "e", "s", "s", "o", "r">>

TextDean == <<"D", "e", "a", "n">>

TextComputerScience == <<"C", "o", "m", "p", "u", "t", "e", "r", " ", "S", "c", "i", "e", "n", "c", "e">>

TextScience == <<"s", "c", "i", "e", "n", "c", "e">>

TextChair ==
    <<"C", "h", "a", "i", "r", " ", "o", "f", " ", "C", "o", "m", "p", "u", "t", "e", "r", " ", "S", "c", "i", "e", "n", "c", "e">>

TextCollege ==
    <<"C", "o", "l", "l", "e", "g", "e", " ", "o", "f", " ", "E", "n", "g", "i", "n", "e", "e", "r", "i", "n", "g">>

TextHistory == <<"P", "h", "D", ",", " ", "G", "M", "U", ",", " ", "2", "0", "0", "1", ".">>

\* departments.csv as load_departments returns it
DepartmentsPool ==
    { <<>>,
      << <<<<"S", "t", "a", "t", "i", "s", "t", "i", "c", "s">>, <<"D", "1">> >>,
         <<TextComputerScience, <<"D", "2">> >> >> }

MaxMiddle == 2          \* fields between the first name and the college

MiddleFieldPool ==
    {TextProfessor, TextDean, TextComputerScience, TextScience, TextChair, <<>>}

\* the entry text with the middle fields given, with or without a college
\* and an academic history
EntryText(middle, with_college, with_history) ==
    Join(<<TextName>> \o middle \o (IF with_college THEN <<TextCollege>> ELSE <<>>),
         <<",", " ">>)
        \o <<".">> \o (IF with_history THEN <<" ">> \o TextHistory ELSE <<>>)

EntryTexts ==
    {EntryText(middle, with_college, with_history) :
        middle \in SeqsUpTo(MiddleFieldPool, MaxMiddle),
        with_college \in BOOLEAN, with_history \in BOOLEAN}

InitFacultyEntry ==
    /\ pc = "call"
    /\ use_empty \in BOOLEAN
    /\ IdleFaculty
    /\ IdleGrants
    /\ arg \in EntryTexts \X DepartmentsPool
    /\ res = Unset
    /\ detail = 0

CallParseFacultyEntry ==
    /\ pc = "call"
    /\ res' = parse_faculty_entry(arg[1], arg[2], use_empty)
    /\ pc' = "done"
    /\ UNCHANGED <<use_empty, facultyVars, grantVars, arg, detail>>

SpecFacultyEntry == InitFacultyEntry /\ [][CallParseFacultyEntry]_vars

(***************************************************************************)
(* Runs of the faculty scraper on an output file that is absent or exists  *)
(* but is empty at the start.                                              *)
(***************************************************************************)
InitRuns ==
    /\ pc = "main"
    /\ use_empty = TRUE
    /\ fexists \in BOOLEAN
    /\ freadable = TRUE
    /\ flines = <<>>
    /\ start_id = 0
    /\ warned = FALSE
    /\ faculty_list = <<>>
    /\ before = Unset
    /\ runs = 0
    /\ IdleGrants
    /\ IdleCall

SpecRuns == InitRuns /\ [][NextFile]_vars

(***************************************************************************)
(* C1, C2: the faculty ids and the appended file.                          *)
(***************************************************************************)
\* what the claims call the numeric part of an id: its digits, read as a
\* number, when the id is nothing but prefix letters and digits
IdDigits(fid) == SelectSeq(fid, IsDigit)

IdIsNumbered(fid) ==
    /\ IdDigits(fid) # <<>>
    /\ \A i \in 1..Len(fid) : IsDigit(fid[i]) \/ fid[i] = FACULTY_ID_PREFIX

NumericPart(fid) ==
    CHOOSE k \in 0..99999 : ZeroFill(Decimal(k), Len(IdDigits(fid))) = IdDigits(fid)

FileHasIdColumn == \E i \in 1..Len(flines[1]) : flines[1][i] = <<"faculty_id">>

IdColumn == Max({i \in 1..Len(flines[1]) : flines[1][i] = <<"faculty_id">>})

FileIds == {flines[r][IdColumn] : r \in 2..Len(flines)}

\* C1: get_next_faculty_id returns 1 when the file is absent or holds no
\* data rows; when the file cannot be read or parsed it warns and returns
\* 1; otherwise it returns 1 + the largest numeric part of the ids in it.
C1_NextFacultyId ==
    pc = "scrape" =>
        IF ~fexists \/ Len(flines) <= 1
        THEN start_id = 1
        ELSE IF ~freadable \/ ~FileHasIdColumn \/ \E fid \in FileIds : ~IdIsNumbered(fid)
        THEN start_id = 1 /\ warned
        ELSE start_id = 1 + Max({NumericPart(fid) : fid \in FileIds}) /\ ~warned

\* the docstring's example: F00005 is the highest id of several, 6 is returned
C1_Witness ==
    /\ pc = "scrape"
    /\ Len(flines) = 3
    /\ flines[2][1] = format_faculty_id(5)
    /\ flines[3][1] = format_faculty_id(2)
    /\ start_id = 6

\* C2: save_to_csv leaves an existing file's content in place and appends,
\* without a header, one row per entry in list order with the ids
\* format_faculty_id(start_id) .. format_faculty_id(start_id + n - 1); a
\* new file gets the header row and then the same rows.
C2_Appended ==
    pc = "saved" =>
        LET n == Len(faculty_list)
            written == [i \in 1..n |->
                         <<format_faculty_id(start_id + i - 1), faculty_list[i]>>]
        IN  /\ fexists
            /\ flines = (IF before.exists THEN before.lines ELSE <<HeaderLine>>)
                          \o written

C2_Witness ==
    /\ pc = "saved"
    /\ before.exists
    /\ Len(before.lines) = 2
    /\ Len(faculty_list) = 2
    /\ start_id > 1

(***************************************************************************)
(* C7: parse_awardees.                                                     *)
(***************************************************************************)
\* the pieces of a string cut at every comma and at every " and "
RECURSIVE CutPieces(_, _)
CutPieces(s, cur) ==
    IF s = <<>> THEN <<cur>>
    ELSE IF Head(s) = "," THEN <<cur>> \o CutPieces(Tail(s), <<>>)
    ELSE IF Len(s) >= 3 /\ s[1] = " " /\ s[2] = "and" /\ s[3] = " "
    THEN <<cur>> \o CutPieces(SubSeq(s, 4, Len(s)), <<>>)
    ELSE CutPieces(Tail(s), Append(cur, Head(s)))

Trimmed(s) ==
    IF \A i \in 1..Len(s) : s[i] = " " THEN <<>>
    ELSE SubSeq(s, Min({i \in 1..Len(s) : s[i] # " "}),
                   Max({i \in 1..Len(s) : s[i] # " "}))

IsBareAnd(s) == Len(s) = 1 /\ s[1] \in {"and", "And", "AND"}

\* C7: parse_awardees returns the names of the string in their order, cut
\* at commas and at " and "; no name is empty, is the word and, or starts
\* or ends with whitespace; the docstring's examples give 1, 2 and 3 names.
C7_Awardees ==
    pc = "done" =>
        /\ res = SelectSeq([i \in 1..Len(CutPieces(arg, <<>>)) |->
                               Trimmed(CutPieces(arg, <<>>)[i])],
                           LAMBDA n : n # <<>> /\ ~IsBareAnd(n))
        /\ \A i \in 1..Len(res) :
              /\ res[i] # <<>>
              /\ res[i] # <<"and">>
              /\ res[i][1] # " "
              /\ res[i][Len(res[i])] # " "
        /\ (arg = <<"Kai", " ", "Zeng">> => res = << <<"Kai", " ", "Zeng">> >>)
        /\ (arg = <<"Brian", " ", "L", ".", " ", "Mark", " ", "and", " ", "Kai", " ", "Zeng">>
              => res = << <<"Brian", " ", "L", ".", " ", "Mark">>, <<"Kai", " ", "Zeng">> >>)
        /\ (Len(arg) = 17 => Len(res) = 3)

C7_Witness ==
    /\ pc = "done"
    /\ Len(arg) = 17
    /\ res = << <<"Bo", " ", "Han">>, <<"Parth", " ", "Pathak">>,
                <<"Lap", " ", "Fai", " ", "Yu">> >>

(***************************************************************************)
(* C6: parse_funding_amount.                                               *)
(***************************************************************************)
\* the factor of the suffix that follows the number of a match
SuffixFactor(s, match) ==
    IF match.after > Len(s) THEN 1
    ELSE IF s[match.after] \in {"M", "m"} THEN 1000000
    ELSE IF s[match.after] \in {"K", "k"} THEN 1000
    ELSE 1

\* the number of a match times a factor, truncated to an integer
ScaledAmount(match, factor) ==
    (IntOf(SelectSeq(match.num, IsDigit) \o match.frac) * factor)
        \div Pow10(Len(match.frac))

\* C6: is_anticipated is True exactly when the input contains
\* 'anticipated' in any letter case; amount is the first '$' amount with
\* commas removed, times 1,000,000 for an M/m suffix or 1,000 for a K/k
\* suffix, truncated to an integer, and None when no '$' is followed by a
\* number.
C6_FundingAmount ==
    pc = "done" =>
        LET match == AmountMatch(arg)
        IN  /\ res[2] = (\E i \in 1..Len(arg) :
                            arg[i] \in {"anticipated", "Anticipated", "ANTICIPATED"})
            /\ res[1] = IF match = None THEN None
                        ELSE IF SelectSeq(match[1].num \o match[1].frac, IsDigit) = <<>>
                        THEN None
                        ELSE Some(ScaledAmount(match[1], SuffixFactor(arg, match[1])))

(***************************************************************************)
(* C10: parse_grant_entry's detail line.                                   *)
(***************************************************************************)
\* a line with its runs of blanks collapsed, in lower case
Collapsed(s) ==
    LowerStr(SelectSeq([i \in 1..Len(s) |->
                          IF s[i] = " " /\ i > 1 /\ s[i - 1] = " " THEN "" ELSE s[i]],
                       LAMBDA c : c # ""))

SaysReceivedFundingFrom(s) ==
    \E form \in {"receive", "receives", "received"} :
        Contains(Collapsed(s), <<form, " ", "funding", " ", "from">>)

SaysFor(s) == \E i \in 2..(Len(s) - 1) :
                  s[i] \in {"for", "For", "FOR"} /\ s[i - 1] = " " /\ s[i + 1] = " "

NonBlank(entry) == SelectSeq(entry, LAMBDA l : \E i \in 1..Len(l) : l[i] # " ")

\* C10: parse_grant_entry returns None when the entry has fewer than two
\* non-blank lines or no line says 'receive(s/d) funding from'; otherwise
\* the detail line is the first line that says it and contains ' for ',
\* or, only when there is no such line, the first line that says it.
C10_DetailLine ==
    pc = "done" =>
        LET lines == NonBlank(arg)
            said == {i \in 1..Len(lines) : SaysReceivedFundingFrom(lines[i])}
            both == {i \in said : SaysFor(lines[i])}
        IN  IF Len(lines) < 2 \/ said = {} THEN res = None
            ELSE detail = IF both # {} THEN Min(both) ELSE Min(said)

\* a line with the phrase alone comes before the line that also has ' for '
C10_Witness ==
    /\ pc = "done"
    /\ arg = <<LineHeader, LineDetail, LineDate>>
    /\ detail = 2
    /\ res # None
    /\ res[1].title = <<"Radar">>

(***************************************************************************)
(* C3, C4: the rows of the grants CSV.                                     *)
(***************************************************************************)
\* rows a grant takes in the file
RowsOf(grant) == Max({1, Len(grant.awardees)})

RECURSIVE RowsBefore(_, _)
\* rows taken by the grants before the i-th
RowsBefore(list, i) ==
    IF i <= 1 THEN 0 ELSE RowsBefore(list, i - 1) + RowsOf(list[i - 1])

\* C3: save_to_csv writes for every grant one row per awardee, or one
\* row with an empty awardee when the grant has none, in grant order then
\* awardee order; the rows of a grant carry its funding, sponsor, title,
\* date and is_anticipated; the row count is the sum over the grants of
\* max(1, number of awardees).
C3_RowPerAwardee ==
    pc = "saved" =>
        /\ Len(rows) = RowsBefore(grants_list, Len(grants_list) + 1)
        /\ \A i \in 1..Len(grants_list) :
              \A k \in 1..RowsOf(grants_list[i]) :
                 LET grant == grants_list[i]
                     row == rows[RowsBefore(grants_list, i) + k]
                 IN  /\ row.awardee = IF grant.awardees = <<>> THEN <<>>
                                      ELSE grant.awardees[k]
                     /\ row.funding = grant.funding
                     /\ row.sponsor = grant.sponsor
                     /\ row.title = grant.title
                     /\ row.date = grant.date
                     /\ row.is_anticipated = grant.is_anticipated

\* a grant without awardees between grants with two and with one
C3_Witness ==
    /\ pc = "saved"
    /\ Len(grants_list) = 3
    /\ Len(grants_list[1].awardees) = 2
    /\ grants_list[2].awardees = <<>>
    /\ Len(grants_list[3].awardees) = 1
    /\ Len(rows) = 4
    /\ rows[3].awardee = <<>>

\* C4: the k-th data row has grant_id format_grant_id(k), G00001,
\* G00002, ..., so the ids are pairwise distinct and consecutive.
C4_GrantIds ==
    pc = "saved" =>
        /\ \A k \in 1..Len(rows) : rows[k].grant_id = format_grant_id(k)
        /\ \A k \in 1..Len(rows) : \A l \in 1..Len(rows) :
              rows[k].grant_id = rows[l].grant_id => k = l

\* two rows of one grant, then a row of the next
C4_Witness ==
    /\ pc = "saved"
    /\ Len(grants_list) >= 2
    /\ Len(grants_list[1].awardees) = 2
    /\ rows[1].grant_id = <<"G", "0", "0", "0", "0", "1">>
    /\ rows[2].grant_id = <<"G", "0", "0", "0", "0", "2">>
    /\ rows[3].grant_id = <<"G", "0", "0", "0", "0", "3">>

(***************************************************************************)
(* C5, C9: parse_html_content.                                             *)
(***************************************************************************)
\* YYYY-MM-DD
IsIsoDate(s) ==
    /\ Len(s) = 10
    /\ \A i \in {1, 2, 3, 4, 6, 7, 9, 10} : IsDigit(s[i])
    /\ s[5] = "-"
    /\ s[8] = "-"

\* C5: every row written to the grants CSV has a date in ISO format:
\* no grant from parse_html_content has a missing date or a date in
\* another format.
C5_IsoDates ==
    pc = "saved" => \A k \in 1..Len(rows) : IsIsoDate(CsvText(rows[k].date))

\* C9: each header starts a new entry and yields at most one grant: the
\* grants never outnumber the headers seen, an entry accepted mid-stream
\* is reset and not emitted again, and the grants are in the order of
\* their headers.
C9_OnePerHeader ==
    /\ Len(grants_list) <= headers
    /\ entry_count = Len(grants_list)
    /\ Len(origin) = Len(grants_list)
    /\ \A i \in 1..Len(origin) : origin[i].header \in 1..headers
    /\ \A i \in 1..Len(origin) : \A j \in 1..Len(origin) :
          i < j => origin[i].header < origin[j].header
    /\ (pc = "parse" /\ origin # <<>> /\ origin[Len(origin)].header = cur_header)
          => current_entry_lines = <<>>

\* an entry accepted mid-stream, then paragraphs of the same entry, then
\* the next header, then the end
C9_Witness ==
    /\ pc = "saved"
    /\ para_i = 4
    /\ headers = 2
    /\ origin = <<[header |-> 1, at |-> "mid"]>>
    /\ Len(rows) = 1


(***************************************************************************)
(* C8: parse_faculty_entry when no middle field matches a department.      *)
(***************************************************************************)
EntryFields(entry_text) ==
    Fields(MainSentence(MainCandidates(Sentences(entry_text),
                                       GoodCandidates(Sentences(entry_text)))))

\* the fields after the first name and before the college
EntryMiddle(entry_text) ==
    MiddleFields(EntryFields(entry_text), CollegeIdx(EntryFields(entry_text)))

NoneMatches(middle, departments) ==
    \A i \in 1..Len(middle) : fuzzy_match_department(middle[i], departments) = None

FirstMatching(middle, departments) ==
    Min({i \in 1..Len(middle) :
            fuzzy_match_department(middle[i], departments) # None})

\* C11: when some middle field matches a department, department is the
\* first such field, department_id is its matched id, and title is the
\* comma-joined middle fields that precede it, so the title never is the
\* department field itself.
C11_TitleBeforeDepartment ==
    (pc = "done" /\ res # None /\ ~NoneMatches(EntryMiddle(arg[1]), arg[2])) =>
        LET middle == EntryMiddle(arg[1])
            first == FirstMatching(middle, arg[2])
        IN  /\ res[1].department = middle[first]
            /\ res[1].department_id =
                  fuzzy_match_department(middle[first], arg[2])[1]
            /\ res[1].title = Join(SubSeq(middle, 1, first - 1), <<",", " ">>)

(***************************************************************************)
(* C12: the ids of the faculty file over several runs.                     *)
(***************************************************************************)
\* the lines of the file that save_to_csv wrote as rows
WrittenRows == SelectSeq(flines, LAMBDA line : line # HeaderLine)

\* C12: after any sequence of runs that starts from an output file that
\* is absent or exists but is empty, the faculty_id values in the file are
\* pairwise distinct and strictly increasing in file order.
C12_IdsIncrease ==
    \A i \in 1..Len(WrittenRows) : \A j \in 1..Len(WrittenRows) :
        i < j => /\ WrittenRows[i][1] # WrittenRows[j][1]
                 /\ NumericPart(WrittenRows[i][1]) < NumericPart(WrittenRows[j][1])

=============================================================================
